---- MODULE Spec2Model ----
(***************************************************************************)
(* A model of hammock.py: the Hammock chain node, its URL resolution, its  *)
(* session lookup and the HTTP-verb methods bound by bind_method.          *)
(*                                                                         *)
(* Strings are sequences of one-character strings, so that "/".join and    *)
(* str() are computed and not assumed.  A Python value that is None, a str *)
(* or an int is a record [t, s, i].  A Hammock instance is its __dict__:   *)
(* a function from attribute names to values.  Instances live in the       *)
(* sequence `nodes`; a reference to an instance is its index, and 0 is     *)
(* None.  A requests session is identified by the index of the instance    *)
(* whose constructor created it; 0 is None.  `handles` are the instances   *)
(* the caller holds a reference to: the ones a constructor, an attribute   *)
(* access or a call returned.  `last` records the last operation and what  *)
(* it returned.                                                            *)
(***************************************************************************)
EXTENDS Integers, Sequences, FiniteSets, TLC

VARIABLES nodes, handles, last

vars == <<nodes, handles, last>>

(* ------------------------------ bounds -------------------------------- *)

\* The number of Hammock instances kept alive at once.
MaxNodes == 3

\* The number of positional arguments of one call.
MaxArgs == 2

(* --------------------------- Python values ---------------------------- *)

None == [t |-> "none", s |-> <<>>, i |-> 0]

PyStr(chars) == [t |-> "str", s |-> chars, i |-> 0]

PyInt(n) == [t |-> "int", s |-> <<>>, i |-> n]

Digit(d) == <<"0", "1", "2", "3", "4", "5", "6", "7", "8", "9">>[d + 1]

RECURSIVE Digits(_)
Digits(n) == IF n < 10 THEN <<Digit(n)>> ELSE Digits(n \div 10) \o <<Digit(n % 10)>>

\* str(arg), hammock.py line 49.
Str(arg) ==
  CASE arg.t = "str" -> arg.s
    [] arg.t = "int" -> Digits(arg.i)
    [] OTHER -> <<"N", "o", "n", "e">>

\* Python truth of a name: None and '' are false (line 37).
Truthy(name) == name.t = "str" /\ name.s # <<>>

\* sep.join(parts), lines 91 and 94.
RECURSIVE Join(_, _)
Join(sep, parts) ==
  IF parts = <<>> THEN <<>>
  ELSE IF Len(parts) = 1 THEN Head(parts)
  ELSE Head(parts) \o sep \o Join(sep, Tail(parts))

\* reversed(seq), lines 91 and 94.
Reversed(seq) == [k \in 1..Len(seq) |-> seq[Len(seq) + 1 - k]]

(* ------------------------------ Hammock ------------------------------- *)

\* Hammock.__init__ (lines 17-20): `kwargs` stands for "kwargs is non-empty",
\* and `id` is the identity of the session requests.session(**kwargs) returns.
HammockInit(name, parent, append_slash, kwargs, id) ==
  [_name |-> name, _parent |-> parent, _append_slash |-> append_slash,
   _session |-> IF kwargs THEN id ELSE 0]

\* The attributes the copy loops leave alone (lines 28 and 51).
IdentityAttrs == {"_name", "_parent", "_append_slash"}

\* A copy loop that copies nothing.
CopyNothing(src, dst) == dst

\* The copy loop of lines 27-29 and 50-52: every attribute of src's __dict__
\* outside IdentityAttrs is set on dst.
CopyAttrs(src, dst) ==
  [a \in DOMAIN dst \cup (DOMAIN src \ IdentityAttrs) |->
     IF a \in DOMAIN src \ IdentityAttrs THEN src[a] ELSE dst[a]]

\* Hammock.__getattr__ (lines 26-31) on instance self of store s: the store
\* with the new child appended; the child is the last instance.
GetAttrStore(s, self, name) ==
  Append(s, CopyAttrs(s[self],
                      HammockInit(PyStr(name), self, s[self]["_append_slash"],
                                  FALSE, 0)))

\* The first loop of Hammock._chain (lines 47-49).
RECURSIVE ChainLoop(_, _, _, _)
ChainLoop(s, chain, self, args) ==
  IF args = <<>> THEN [store |-> s, node |-> chain]
  ELSE ChainLoop(Append(s, HammockInit(PyStr(Str(Head(args))), chain,
                                       s[self]["_append_slash"], FALSE, 0)),
                 Len(s) + 1, self, Tail(args))

\* Hammock._chain (lines 47-54): the store after the call and the instance
\* returned.
Chain(s, self, args) ==
  LET r == ChainLoop(s, self, self, args)
  IN  [store |-> [r.store EXCEPT ![r.node] = CopyAttrs(s[self], @)],
       node  |-> r.node]

\* __iter__ without the test of line 37: every instance is yielded.
RECURSIVE IterYieldsAll(_, _)
IterYieldsAll(s, current) ==
  IF current = 0 THEN <<>>
  ELSE <<current>> \o IterYieldsAll(s, s[current]["_parent"])

\* Hammock.__iter__ (lines 35-39): the instances yielded, in order.
RECURSIVE Iter(_, _)
Iter(s, current) ==
  IF current = 0 THEN <<>>
  ELSE (IF Truthy(s[current]["_name"]) THEN <<current>> ELSE <<>>)
       \o Iter(s, s[current]["_parent"])

\* Hammock._probe_session (lines 60-63).
RECURSIVE FirstSession(_, _)
FirstSession(s, it) ==
  IF it = <<>> THEN 0
  ELSE IF s[Head(it)]["_session"] # 0 THEN s[Head(it)]["_session"]
  ELSE FirstSession(s, Tail(it))

ProbeSession(s, self) == FirstSession(s, Iter(s, self))

\* Hammock._url (lines 88-94).
Url(s, self, args) ==
  LET c == Chain(s, self, args)
      it == Iter(c.store, c.node)
      path_comps == [k \in 1..Len(it) |-> c.store[it[k]]["_name"].s]
  IN  IF s[self]["_append_slash"]
      THEN Join(<<"/">>, Reversed(path_comps)) \o <<"/">>
      ELSE Join(<<"/">>, Reversed(path_comps))

\* The session Hammock._close_session closes, 0 when it closes none
\* (lines 72-74): `probe and self._probe_session() or self._session`.
SessionToClose(s, self, probe) ==
  IF probe /\ ProbeSession(s, self) # 0 THEN ProbeSession(s, self)
  ELSE s[self]["_session"]

(* ------------------------------ bind_method --------------------------- *)

\* Hammock.HTTP_METHODS, line 7.
HTTP_METHODS == <<"get", "options", "head", "post", "put", "patch", "delete">>

\* method.upper(), line 145: the attribute name a verb is bound under.
Upper(method) ==
  CASE method = "get" -> "GET"
    [] method = "options" -> "OPTIONS"
    [] method = "head" -> "HEAD"
    [] method = "post" -> "POST"
    [] method = "put" -> "PUT"
    [] method = "patch" -> "PATCH"
    [] method = "delete" -> "DELETE"

\* REQUESTS_SPECIAL_KEYS, lines 115-119.
REQUESTS_SPECIAL_KEYS ==
  {"params", "headers", "cookies", "auth", "timeout", "allow_redirects",
   "proxies", "return_response", "session", "config", "verify", "prefetch",
   "cert"}

\* The test of line 120 without its last conjunct.
CoercesIgnoringParams(method, kwargs) ==
  method = "get" /\ DOMAIN kwargs # {}

\* The test of line 120.
Coerces(method, kwargs) ==
  method = "get" /\ DOMAIN kwargs # {} /\ "params" \notin DOMAIN kwargs

\* params_to_send when line 127 assigns a fresh dict on every turn of the
\* loop instead of updating one: only one pair is left.
ParamsToSendOnePair(kwargs) ==
  LET non_special == DOMAIN kwargs \ REQUESTS_SPECIAL_KEYS
  IN  IF non_special = {} THEN <<>>
      ELSE "params" :> [key \in {CHOOSE k \in non_special : TRUE} |->
                          kwargs[key]]

\* params_to_send after the loop of lines 124-131.
ParamsToSend(kwargs) ==
  LET non_special == DOMAIN kwargs \ REQUESTS_SPECIAL_KEYS
  IN  IF non_special = {} THEN <<>>
      ELSE "params" :> [key \in non_special |-> kwargs[key]]

\* aux without the raise of lines 133-135.
AuxNoRaise(method, kwargs) ==
  IF Coerces(method, kwargs)
  THEN [raised |-> FALSE,
        kwargs |-> IF DOMAIN kwargs \ REQUESTS_SPECIAL_KEYS # {}
                   THEN ParamsToSend(kwargs) ELSE kwargs]
  ELSE [raised |-> FALSE, kwargs |-> kwargs]

\* aux up to the call of _request (lines 120-138): whether it raises, and
\* the kwargs it goes on with.
Aux(method, kwargs) ==
  LET special_key_found == DOMAIN kwargs \cap REQUESTS_SPECIAL_KEYS # {}
      non_special_key_found == DOMAIN kwargs \ REQUESTS_SPECIAL_KEYS # {}
  IN  IF Coerces(method, kwargs)
      THEN [raised |-> special_key_found /\ non_special_key_found,
            kwargs |-> IF non_special_key_found THEN ParamsToSend(kwargs)
                       ELSE kwargs]
      ELSE [raised |-> FALSE, kwargs |-> kwargs]

\* What a request is handed to: a session, or the `requests` module.
SessionTarget(id) == [kind |-> "session", id |-> id]

RequestsModule == [kind |-> "requests", id |-> 0]

\* _request when it resolves the URL without the extra components.
RequestIgnoresArgs(s, self, method, args, kwargs) ==
  [target |-> IF ProbeSession(s, self) # 0
              THEN SessionTarget(ProbeSession(s, self)) ELSE RequestsModule,
   method |-> method, url |-> Url(s, self, <<>>), options |-> kwargs]

\* Hammock._request (lines 104-105): the request handed to the transport.
Request(s, self, method, args, kwargs) ==
  [target |-> IF ProbeSession(s, self) # 0
              THEN SessionTarget(ProbeSession(s, self)) ELSE RequestsModule,
   method |-> method, url |-> Url(s, self, args), options |-> kwargs]

\* The requests one call of a bound verb issues (lines 111-140).
Sent(s, self, method, args, kwargs) ==
  IF Aux(method, kwargs).raised THEN <<>>
  ELSE <<Request(s, self, method, args, Aux(method, kwargs).kwargs)>>

(* ------------------------------ inputs -------------------------------- *)

\* Names given to the constructor.
CtorNames == {None, PyStr(<<"h">>)}

\* Attribute names used in property-style chaining.
AttrNames == {<<"a">>}

\* Positional arguments of a call: strings and string-representable values.
ArgValues == {PyStr(<<>>), PyStr(<<"u", "/">>), PyInt(0)}

ArgSeqs(values) == UNION {[1..n -> values] : n \in 0..MaxArgs}

\* Values of the caller-attached attribute `headers`.
AttrValues == {1, 2}

\* Values of the keyword arguments `filter` and `page`.
OptionValues == {1, 2}

\* Keyword arguments of a verb: `params` and `headers` are special keys,
\* `filter` and `page` are not.
Kwargs(withParams, withHeaders, rest) ==
  (IF withParams THEN "params" :> ("a" :> 1) ELSE <<>>)
  @@ (IF withHeaders THEN "headers" :> 1 ELSE <<>>)
  @@ rest

(* ------------------------------- state -------------------------------- *)

NoCall == [op |-> "none", node |-> 0, args |-> <<>>, res |-> 0, url |-> <<>>,
           session |-> 0, verb |-> "", options |-> <<>>, raised |-> FALSE,
           sent |-> <<>>]

Init ==
  /\ nodes = <<>>
  /\ handles = {}
  /\ last = NoCall

\* Hammock(name, append_slash=..., **kwargs), lines 9-20: a chain's root.
New(name, append_slash, kwargs) ==
  /\ nodes = <<>>
  /\ nodes' = Append(nodes, HammockInit(name, 0, append_slash, kwargs,
                                        Len(nodes) + 1))
  /\ handles' = handles \cup {Len(nodes) + 1}
  /\ last' = [NoCall EXCEPT !.op = "new", !.res = Len(nodes) + 1]

\* self.<name>, lines 22-31.
GetAttr(self, name) ==
  /\ Len(nodes) < MaxNodes
  /\ nodes' = GetAttrStore(nodes, self, name)
  /\ handles' = handles \cup {Len(nodes) + 1}
  /\ last' = [NoCall EXCEPT !.op = "getattr", !.node = self,
                            !.res = Len(nodes) + 1]

\* self(*args), lines 76-80.
Call(self, args) ==
  /\ Len(nodes) + Len(args) <= MaxNodes
  /\ nodes' = Chain(nodes, self, args).store
  /\ handles' = handles \cup {Chain(nodes, self, args).node}
  /\ last' = [NoCall EXCEPT !.op = "call", !.node = self, !.args = args,
                            !.res = Chain(nodes, self, args).node]

\* self.headers = v: the caller attaches or rebinds a custom attribute.
SetAttr(self, v) ==
  /\ nodes' = [nodes EXCEPT ![self] = ("headers" :> v) @@ @]
  /\ last' = [NoCall EXCEPT !.op = "setattr", !.node = self]
  /\ UNCHANGED handles

\* self._probe_session(), lines 56-63.
Probe(self) ==
  /\ last' = [NoCall EXCEPT !.op = "probe", !.node = self,
                            !.session = ProbeSession(nodes, self)]
  /\ UNCHANGED <<nodes, handles>>

\* self._close_session(probe), lines 65-74: last.session is the session
\* whose close() was called, 0 when none was.
CloseSession(self, probe) ==
  /\ last' = [NoCall EXCEPT !.op = IF probe THEN "close_probe" ELSE "close",
                            !.node = self,
                            !.session = SessionToClose(nodes, self, probe)]
  /\ UNCHANGED <<nodes, handles>>

\* self._url(*args) and repr(self), lines 82-98.  The instances _chain makes
\* for the extra components are dropped when _url returns.
GetUrl(self, args) ==
  /\ last' = [NoCall EXCEPT !.op = "url", !.node = self, !.args = args,
                            !.url = Url(nodes, self, args)]
  /\ UNCHANGED <<nodes, handles>>

\* self.GET(*args, **kwargs) and the other bound verbs, lines 111-145.
Execute(self, method, args, kwargs) ==
  /\ last' = [NoCall EXCEPT !.op = "execute", !.node = self, !.args = args,
                            !.verb = Upper(method), !.options = kwargs,
                            !.raised = Aux(method, kwargs).raised,
                            !.sent = Sent(nodes, self, method, args, kwargs)]
  /\ UNCHANGED <<nodes, handles>>

\* No operation is in progress: the caller starts the next one.
Idle == last.op = "none"

\* The caller is done with the result of the last operation.
Return ==
  /\ ~Idle
  /\ last' = NoCall
  /\ UNCHANGED <<nodes, handles>>

Methods == {HTTP_METHODS[k] : k \in 1..Len(HTTP_METHODS)}

(* --------------------------- specifications --------------------------- *)

\* Chains and their URLs.
NextUrl ==
  \/ Idle /\ \E name \in CtorNames, slash \in BOOLEAN : New(name, slash, FALSE)
  \/ Idle /\ \E self \in handles, name \in AttrNames : GetAttr(self, name)
  \/ Idle /\ \E self \in handles, args \in ArgSeqs(ArgValues) : Call(self, args)
  \/ Idle /\ \E self \in handles, args \in ArgSeqs(ArgValues) : GetUrl(self, args)
  \/ Return

SpecUrl == Init /\ [][NextUrl]_vars

\* Chains and their sessions.
NextSession ==
  \/ Idle /\ \E name \in CtorNames, kwargs \in BOOLEAN : New(name, FALSE, kwargs)
  \/ Idle /\ \E self \in handles, name \in AttrNames : GetAttr(self, name)
  \/ Idle /\ \E self \in handles, args \in ArgSeqs(ArgValues) : Call(self, args)
  \/ Idle /\ \E self \in handles : Probe(self)
  \/ Idle /\ \E self \in handles, probe \in BOOLEAN : CloseSession(self, probe)
  \/ Return

SpecSession == Init /\ [][NextSession]_vars

\* Chains and their custom attributes.
NextAttr ==
  \/ Idle /\ \E name \in CtorNames : New(name, FALSE, FALSE)
  \/ Idle /\ \E self \in handles, name \in AttrNames : GetAttr(self, name)
  \/ Idle /\ \E self \in handles, args \in ArgSeqs({PyStr(<<"u", "/">>)}) :
                Call(self, args)
  \/ Idle /\ \E self \in handles, v \in AttrValues : SetAttr(self, v)
  \/ Return

SpecAttr == Init /\ [][NextAttr]_vars

\* Chains and the verbs called on them.
NextDispatch ==
  \/ Idle /\ \E name \in CtorNames, slash \in BOOLEAN, kwargs \in BOOLEAN :
                New(name, slash, kwargs)
  \/ Idle /\ \E self \in handles, name \in AttrNames : GetAttr(self, name)
  \/ Idle /\ \E self \in handles, method \in Methods,
                args \in ArgSeqs({PyStr(<<"u", "/">>), PyInt(0)}),
                withParams \in BOOLEAN, withHeaders \in BOOLEAN,
                K \in SUBSET {"filter", "page"} :
                \E rest \in [K -> OptionValues] :
                   Execute(self, method, args,
                           Kwargs(withParams, withHeaders, rest))
  \/ Return

SpecDispatch == Init /\ [][NextDispatch]_vars

(* ------------------------------- claims ------------------------------- *)

\* The instances from the root down to n, every one of them, root first.
RECURSIVE RootFirst(_, _)
RootFirst(s, n) ==
  IF n = 0 THEN <<>> ELSE Append(RootFirst(s, s[n]["_parent"]), n)

RootOf(s, n) == RootFirst(s, n)[1]

\* n1/n2/.../nk, built from the left.
RECURSIVE SlashSeparated(_)
SlashSeparated(names) ==
  IF names = <<>> THEN <<>>
  ELSE IF Len(names) = 1 THEN names[1]
  ELSE SlashSeparated(SubSeq(names, 1, Len(names) - 1))
       \o <<"/">> \o names[Len(names)]

\* The names chained below the root of `self`, then the extra components.
ChainedNames(self, args) ==
  LET path == RootFirst(nodes, self)
  IN  [k \in 1..(Len(path) - 1) |-> nodes[path[k + 1]]["_name"].s]
      \o [k \in 1..Len(args) |-> Str(args[k])]

\* The last operation resolved the URL of a chain of non-empty names under
\* an unnamed root without append_slash.
C1_Case ==
  /\ last.op = "url"
  /\ ~Truthy(nodes[RootOf(nodes, last.node)]["_name"])
  /\ ~nodes[RootOf(nodes, last.node)]["_append_slash"]
  /\ \A k \in 1..Len(ChainedNames(last.node, last.args)) :
        ChainedNames(last.node, last.args)[k] # <<>>

\* C1: for non-empty names n1..nk chained from an unnamed root without
\* append_slash, by attribute access, by calls or as extra components of
\* _url in any mix, _url returns exactly n1/n2/.../nk: the names in
\* root-to-leaf order joined by '/', nothing for the root.
C1_UrlJoinsNames ==
  C1_Case => last.url = SlashSeparated(ChainedNames(last.node, last.args))

\* A chain of an attribute access and a call, resolved with an extra
\* component: three names or more.
C1_Witness ==
  /\ C1_Case
  /\ Len(RootFirst(nodes, last.node)) >= 3
  /\ Len(last.args) >= 1
  /\ \E n \in 1..Len(nodes) : nodes[n]["_name"] = PyStr(<<"a">>)
  /\ Len(last.url) >= 5

\* C8: with append_slash set, _url returns a string that ends with exactly
\* one '/', never two, whatever the chain and the extra components; for an
\* unnamed root alone it returns '/'.
C8_OneTrailingSlash ==
  (last.op = "url" /\ nodes[last.node]["_append_slash"]) =>
     /\ Len(last.url) >= 1
     /\ last.url[Len(last.url)] = "/"
     /\ Len(last.url) >= 2 => last.url[Len(last.url) - 1] # "/"

\* The session of the first instance from n up to the root, n included and
\* unnamed instances included, that has one; 0 when none has.
RECURSIVE NearestSession(_, _)
NearestSession(s, n) ==
  IF n = 0 THEN 0
  ELSE IF s[n]["_session"] # 0 THEN s[n]["_session"]
  ELSE NearestSession(s, s[n]["_parent"])

\* C5: for every instance n, named or not, _probe_session returns the
\* session of the first instance on the path n, parent(n), ..., root that
\* has one, and None exactly when no instance on that path has one.
C5_ProbeFindsNearest ==
  last.op = "probe" => last.session = NearestSession(nodes, last.node)

\* C6: a session attached at a chain's root, named or not, is what
\* _probe_session returns from every descendant obtained by attribute
\* accesses and calls, whatever the path components.
C6_RootSessionFromDescendants ==
  (/\ last.op = "probe"
   /\ last.node # RootOf(nodes, last.node)
   /\ nodes[RootOf(nodes, last.node)]["_session"] # 0)
  => last.session = nodes[RootOf(nodes, last.node)]["_session"]

\* C10: an instance has a session only if its own constructor was given
\* one; an instance made by an attribute access or a call has none, so
\* _close_session(probe=False) on it closes nothing.
C10_SessionOnlyWhereAttached ==
  /\ \A n \in 1..Len(nodes) :
        nodes[n]["_session"] # 0 => nodes[n]["_session"] = n
  /\ (last.op = "close" /\ nodes[last.node]["_parent"] # 0)
        => last.session = 0

\* Two instances hold the same custom attribute, or both hold none.
SameCustom(x, y) ==
  /\ "headers" \in DOMAIN x <=> "headers" \in DOMAIN y
  /\ "headers" \in DOMAIN x => x["headers"] = y["headers"]

Special(kwargs) == DOMAIN kwargs \cap REQUESTS_SPECIAL_KEYS

Unrecognized(kwargs) == DOMAIN kwargs \ REQUESTS_SPECIAL_KEYS

\* The last operation was a GET without `params` that mixes a special key
\* and an unrecognized one.
C2_Case ==
  /\ last.op = "execute" /\ last.verb = "GET"
  /\ "params" \notin DOMAIN last.options
  /\ Special(last.options) # {}
  /\ Unrecognized(last.options) # {}

\* C2: a GET whose keyword arguments have no `params`, at least one special
\* key and at least one unrecognized key raises, and no request is handed
\* to a session or to the requests module.
C2_AmbiguousRaisesBeforeRequest ==
  C2_Case => (last.raised /\ last.sent = <<>>)

C2_Witness == C2_Case /\ last.raised

\* The last operation was a GET with keyword arguments, none of them
\* special.
C3_Case ==
  /\ last.op = "execute" /\ last.verb = "GET"
  /\ DOMAIN last.options # {}
  /\ Special(last.options) = {}

\* C3: a GET whose keyword arguments are non-empty and all unrecognized is
\* dispatched with exactly {params: M}, M holding every original pair and
\* nothing else.
C3_UnrecognizedBecomeParams ==
  C3_Case =>
     /\ ~last.raised
     /\ Len(last.sent) = 1
     /\ DOMAIN last.sent[1].options = {"params"}
     /\ DOMAIN last.sent[1].options["params"] = DOMAIN last.options
     /\ \A key \in DOMAIN last.options :
           last.sent[1].options["params"][key] = last.options[key]

\* Two unrecognized keys with different values were sent as params.
C3_Witness ==
  /\ C3_Case
  /\ DOMAIN last.options = {"filter", "page"}
  /\ last.options["filter"] # last.options["page"]
  /\ Len(last.sent) = 1

\* The last operation was a verb call outside the coercion rule.
C4_Case ==
  /\ last.op = "execute"
  /\ \/ last.verb # "GET"
     \/ DOMAIN last.options = {}
     \/ "params" \in DOMAIN last.options
     \/ Unrecognized(last.options) = {}

\* C4: for every verb but GET, for GET without keyword arguments, for GET
\* with a `params` key (even next to unrecognized keys) and for GET with
\* special keys only, the keyword arguments reach the transport as the
\* caller gave them and nothing is raised.
C4_OtherwiseForwardedUnchanged ==
  C4_Case =>
     /\ ~last.raised
     /\ Len(last.sent) = 1
     /\ DOMAIN last.sent[1].options = DOMAIN last.options
     /\ \A key \in DOMAIN last.options :
           last.sent[1].options[key] = last.options[key]

\* A GET with `params` next to an unrecognized key went through.
C4_Witness ==
  /\ C4_Case
  /\ last.verb = "GET"
  /\ {"params", "filter"} \subseteq DOMAIN last.options
  /\ Len(last.sent) = 1

\* The keyword arguments a call is dispatched with.
Dispatched(verb, kwargs) ==
  IF /\ verb = "GET" /\ DOMAIN kwargs # {} /\ "params" \notin DOMAIN kwargs
     /\ Unrecognized(kwargs) # {}
  THEN "params" :> kwargs
  ELSE kwargs

\* C7: a verb call that does not raise issues exactly one request: to the
\* session _probe_session returns for the instance when there is one and to
\* the requests module otherwise, with the verb's method, the URL _url
\* returns for the instance and the extra components, and the keyword
\* arguments, coerced or not.
C7_OneRequestPerCall ==
  (last.op = "execute" /\ ~last.raised) =>
     /\ Len(last.sent) = 1
     /\ last.sent[1].target =
           IF ProbeSession(nodes, last.node) # 0
           THEN SessionTarget(ProbeSession(nodes, last.node))
           ELSE RequestsModule
     /\ Upper(last.sent[1].method) = last.verb
     /\ last.sent[1].url = Url(nodes, last.node, last.args)
     /\ last.sent[1].options = Dispatched(last.verb, last.options)

\* A request with extra components went to a session.
C7_Witness ==
  /\ last.op = "execute" /\ ~last.raised
  /\ Len(last.args) >= 1
  /\ Len(last.sent) = 1
  /\ last.sent[1].target.kind = "session"
  /\ Len(last.sent[1].url) >= 3

====
